---- MODULE Spec2Model ----
(***************************************************************************)
(* Verification model of the wellspring-health backend request handlers:   *)
(* staff assignments (routers/staff_assignments.py), appointments          *)
(* (routers/appointments.py), progress notes (routers/notes.py),           *)
(* telehealth sessions (routers/telehealth.py), clients                    *)
(* (routers/clients.py) and user accounts, password resets and token       *)
(* refresh (routers/users.py) over the relational store declared in        *)
(* models.py.                                                              *)
(*                                                                         *)
(* The store is the default one of config.py (SQLite through SQLAlchemy):  *)
(* foreign keys are declared but not enforced, an integer primary key is   *)
(* max(id)+1 of the table, and a comparison with NULL is never true.       *)
(* Payload fields that no handler reads (is_primary, notes, note_text,     *)
(* type, ...) are left out of the rows.                                    *)
(***************************************************************************)
EXTENDS Integers, FiniteSets, Sequences, TLC

\* ---------------------------------------------------------------- bounds
MaxDay == 2          \* calendar days are 1..MaxDay
MaxAssignments == 3  \* rows the staff_assignments table may hold
MaxRequests == 2     \* assign_staff requests that may be in flight at once
MaxTime == 2         \* appointment instants are 1..MaxTime
MaxAppointments == 2 \* rows the appointments table may hold
MaxNotes == 1        \* rows the progress_notes table may hold
MaxSessions == 2     \* rows the telehealth_sessions table may hold
MaxUrlId == 12       \* join_url is compared for appointment ids 0..MaxUrlId
MaxTokens == 2       \* reset tokens that may be generated
MaxClock == 3        \* the clock runs over 1..MaxClock
MaxClients == 3      \* rows the clients table may hold

\* ------------------------------------------------------- values and inputs
NoDate == 0          \* Optional[date] = None, NULL in the store
NoId == 0            \* Optional[int] = None, NULL in the store
Days == 1..MaxDay

\* date.today() of validate_start_date: day 1 is in the past.
Today == 2
Times == 1..MaxTime

\* Clients 1 and 2 and users 1 and 2 are stored; id 3 names no row.
InitClients == {1, 2}
InitUsers == (1 :> "provider") @@ (2 :> "admin")

NoToken == 0         \* reset_token is NULL
NoExpiry == 0        \* reset_token_expires is NULL
NoText == ""         \* an Optional[str] that is None or empty

\* Client 1 is stored with an email and a phone, client 2 with neither.
InitContacts ==
    (1 :> [email |-> "a@x", phone |-> "111"])
        @@ (2 :> [email |-> NoText, phone |-> NoText])

\* Every stored user is active and has no reset token.
InitAccounts ==
    [u \in DOMAIN InitUsers |->
        [is_active |-> TRUE, reset_token |-> NoToken,
         reset_token_expires |-> NoExpiry]]
Roles == {"provider", "admin"}
Statuses == {"scheduled", "completed", "canceled", "no_show"}

\* StaffAssignmentCreate payloads: the second class statement of that name
\* replaces the one carrying the validators, so any pair of dates arrives.
AssignmentPayloads(cids, uids, roles, dates) ==
    [client_id : cids, staff_user_id : uids, role : roles,
     start_date : dates, end_date : dates]

\* Every pair of dates for the payloads that name stored referents and the
\* user's role, one pair of dates for those that name a missing client, a
\* missing user or another role.
AssignInputs ==
    AssignmentPayloads({1, 2}, {1}, {"provider"}, Days)
        \cup AssignmentPayloads({1, 2, 3}, {1, 3}, Roles, {1})
ConcInputs == AssignmentPayloads({1}, {1}, {"provider"}, Days)

\* AppointmentCreate payloads.
AppointmentPayloads(cids, pids, starts, ends, statuses) ==
    [client_id : cids, provider_id : pids, start_time : starts,
     end_time : ends, status : statuses]

\* AppointmentUpdate and ProgressNoteUpdate payloads are the dict that
\* model_dump(exclude_unset=True) returns: a function on the fields that the
\* request sets.
NoFields == [f \in {} |-> NoId]

Window(t1, t2) == ("start_time" :> t1) @@ ("end_time" :> t2)

\* status is a plain str in both appointment schemas: a string outside the
\* four of the column comment of models.py.
OtherStatus == "archived"

\* Payloads of the appointment specification: one stored and one missing
\* client and provider, every pair of instants, every status.
ApptCreateInputs ==
    AppointmentPayloads({1, 3}, {1, 3}, Times, Times, Statuses)
        \cup AppointmentPayloads({1}, {1}, {1}, {2}, {OtherStatus})

ApptUpdateInputs ==
    {NoFields}
        \cup {"status" :> st : st \in Statuses}
        \cup {Window(t1, t2) : t1, t2 \in Times}
        \cup {Window(t1, t2) @@ ("status" :> st) :
                t1, t2 \in Times, st \in Statuses}
        \cup {Window(1, 2) @@ ("client_id" :> c) @@ ("provider_id" :> u) :
                c \in {1, 3}, u \in {1, 3}}
        \cup {Window(1, 2) @@ ("status" :> OtherStatus)}

\* Payloads of the note specification: two stored clients and providers, one
\* window, status left at its default.
LinkCreateInputs ==
    AppointmentPayloads({1, 2}, {1, 2}, {1}, {2}, {"scheduled"})

LinkUpdateInputs ==
    {Window(1, 2) @@ ("client_id" :> c) : c \in {1, 2}}
        \cup {Window(1, 2) @@ ("provider_id" :> u) : u \in {1, 2}}

\* ProgressNoteCreate payloads.
NotePayloads(cids, pids, aids) ==
    [client_id : cids, provider_id : pids, appointment_id : aids]

NoteCreateInputs ==
    NotePayloads({1, 2}, {1, 2}, 0..MaxAppointments)
        \cup NotePayloads({1, 3}, {1, 3}, {1})

NoteUpdateInputs ==
    {NoFields} \cup {"appointment_id" :> a : a \in 0..MaxAppointments}

\* Payloads of create_telehealth_session: the stored and one missing
\* appointment, client and provider.
SessionPayloads(aids, pids, cids) ==
    [appointment_id : aids, provider_id : pids, client_id : cids]

SessionInputs ==
    SessionPayloads(1..MaxAppointments, {1, 2}, {1, 2})
        \cup SessionPayloads({1, MaxAppointments + 1}, {1, 3}, {1, 3})

\* Payloads of the pair specification: both stored clients and both stored
\* users, each user with its own role; every pair of dates for the provider,
\* day 1 for the admin.
PairInputs ==
    AssignmentPayloads({1, 2}, {1}, {"provider"}, Days)
        \cup AssignmentPayloads({1, 2}, {2}, {"admin"}, {1})

\* Payloads of one pair whose start_date and end_date may each be absent.
AbsentInputs == AssignmentPayloads({1}, {1}, {"provider"}, {NoDate} \cup Days)

\* timedelta(minutes=30) of request_reset, in ticks of the clock.
ResetTtl == 1

\* Reset tokens a caller may present: generated or not.
Tokens == 1..MaxTokens

\* Refresh tokens: one that decode_token rejects, one without "sub", and one
\* for each stored user and for a missing one.
RefreshInputs ==
    {[valid |-> FALSE, sub |-> 1]}
        \cup {[valid |-> TRUE, sub |-> s] : s \in {NoId, 1, 2, 3}}

\* UserUpdateSchema payloads, by the fields they set.
UserUpdateInputs == {NoFields} \cup {"is_active" :> b : b \in BOOLEAN}

\* The email and phone values of client payloads: absent or one of two.
Emails == {NoText, "a@x", "b@x"}
Phones == {NoText, "111", "222"}

\* ClientCreate payloads.
ClientCreateInputs == [email : Emails, phone : Phones]

\* ClientUpdate payloads, by the fields they set.
ClientUpdateInputs ==
    {NoFields}
        \cup {"email" :> e : e \in Emails}
        \cup {"phone" :> p : p \in Phones}
        \cup {("email" :> e) @@ ("phone" :> p) : e \in Emails, p \in Phones}

VARIABLES
    clients,        \* ids of the rows of table clients
    users,          \* role of each row of table users, by id
    assignments,    \* rows of table staff_assignments
    appointments,   \* rows of table appointments
    notes,          \* rows of table progress_notes
    inflight,       \* the assign_staff request suspended at an await, per slot
    resp,           \* the response to the last request served
    everCompleted,  \* history: ids whose appointment has had status "completed"
    sessions,       \* rows of table telehealth_sessions
    contacts,       \* email and phone of each row of table clients, by id
    accounts,       \* is_active, reset_token, reset_token_expires of each user
    now,            \* datetime.utcnow()
    issued,         \* number of reset tokens generated so far
    retired         \* history: reset tokens that were used or replaced

vars == <<clients, users, assignments, appointments, notes, inflight, resp,
          everCompleted, sessions, contacts, accounts, now, issued, retired>>

people == <<clients, users>>
auth == <<accounts, now, issued, retired>>
scheduling == <<appointments, notes, everCompleted, sessions>>

\* ------------------------------------------------------------------ store
Max(S) == CHOOSE m \in S : \A x \in S : x <= m

\* Integer primary key of a new row of a table whose ids are `ids`.
NewId(ids) == IF ids = {} THEN 1 ELSE Max(ids) + 1

Ids(rows) == {x.id : x \in rows}

\* A comparison that orders NULL before every date: the behaviour that C25
\* rules out.
SqlLe_NullFirst(a, b) == a <= b

\* SQL comparison a <= b: not true when either side is NULL.
SqlLe(a, b) == a # NoDate /\ b # NoDate /\ a <= b

\* Result.scalar_one_or_none(): the row, None, or MultipleResultsFound.
ScalarOneOrNone(rows) ==
    IF rows = {} THEN "none"
    ELSE IF Cardinality(rows) = 1 THEN "one"
    ELSE "multiple"

Response(op, code, message) == [op |-> op, code |-> code, message |-> message]

NoResponse == Response("none", 0, "")

Idle == [pc |-> "idle"]

\* ------------------------------------------------------ staff assignments
ConflictMessage ==
    "Staff already assigned to this client during the selected date range"

\* Overlaps with exclusive bounds: the reading that C5 rules out.
Overlaps_Exclusive(a1, a2, b1, b2) ==
    a1 # NoDate /\ a2 # NoDate /\ b1 # NoDate /\ b2 # NoDate /\ a1 < b2 /\ b1 < a2

\* The two date conditions of both overlap queries: the stored [a1, a2]
\* against the requested [b1, b2].
Overlaps(a1, a2, b1, b2) == SqlLe(a1, b2) /\ SqlLe(b1, a2)

\* An overlap query of assign_staff without the condition on client_id: the
\* scan that C24 rules out.
AssignOverlapRows_AnyClient(r) ==
    {a \in assignments :
        /\ a.staff_user_id = r.staff_user_id
        /\ Overlaps(a.start_date, a.end_date, r.start_date, r.end_date)}

\* The WHERE clause of the overlap query of assign_staff.
AssignOverlapRows(r) ==
    {a \in assignments :
        /\ a.client_id = r.client_id
        /\ a.staff_user_id = r.staff_user_id
        /\ Overlaps(a.start_date, a.end_date, r.start_date, r.end_date)}

\* An overlap query that only asks whether a stored interval starts inside the
\* requested one: the reading that C1 rules out.
UpdateOverlapRows_StartInside(id, r) ==
    {a \in assignments :
        /\ a.id # id
        /\ a.client_id = r.client_id
        /\ a.staff_user_id = r.staff_user_id
        /\ SqlLe(r.start_date, a.start_date)
        /\ SqlLe(a.start_date, r.end_date)}

\* The WHERE clause of the overlap query of update_staff_assignment.
UpdateOverlapRows(id, r) ==
    {a \in assignments :
        /\ a.id # id
        /\ a.client_id = r.client_id
        /\ a.staff_user_id = r.staff_user_id
        /\ Overlaps(a.start_date, a.end_date, r.start_date, r.end_date)}

AssignmentRow(id, r) ==
    [id |-> id, client_id |-> r.client_id, staff_user_id |-> r.staff_user_id,
     role |-> r.role, start_date |-> r.start_date, end_date |-> r.end_date]

\* An assign_staff without the comparison of staff.role with the declared
\* role: the behaviour that C17 rules out.
AssignStaffResponse_NoRole(r) ==
    IF r.client_id \notin clients
    THEN Response("assign_staff", 404, "Client not found")
    ELSE IF r.staff_user_id \notin DOMAIN users
    THEN Response("assign_staff", 404, "Staff user not found")
    ELSE LET found == ScalarOneOrNone(AssignOverlapRows(r)) IN
         IF found = "multiple"
         THEN Response("assign_staff", 500, "MultipleResultsFound")
         ELSE IF found = "one"
         THEN Response("assign_staff", 409, ConflictMessage)
         ELSE Response("assign_staff", 200, "")

\* An assign_staff that runs the overlap query before the role comparison:
\* the order that C23 rules out.
AssignStaffResponse_OverlapFirst(r) ==
    IF r.client_id \notin clients
    THEN Response("assign_staff", 404, "Client not found")
    ELSE IF r.staff_user_id \notin DOMAIN users
    THEN Response("assign_staff", 404, "Staff user not found")
    ELSE LET found == ScalarOneOrNone(AssignOverlapRows(r)) IN
         IF found = "multiple"
         THEN Response("assign_staff", 500, "MultipleResultsFound")
         ELSE IF found = "one"
         THEN Response("assign_staff", 409, ConflictMessage)
         ELSE IF users[r.staff_user_id] # r.role
         THEN Response("assign_staff", 404, "Invalid Staff user role.")
         ELSE Response("assign_staff", 200, "")

\* The outcome of the reads of assign_staff, up to the commit.
AssignStaffResponse(r) ==
    IF r.client_id \notin clients
    THEN Response("assign_staff", 404, "Client not found")
    ELSE IF r.staff_user_id \notin DOMAIN users
    THEN Response("assign_staff", 404, "Staff user not found")
    ELSE IF users[r.staff_user_id] # r.role
    THEN Response("assign_staff", 404, "Invalid Staff user role.")
    ELSE LET found == ScalarOneOrNone(AssignOverlapRows(r)) IN
         IF found = "multiple"
         THEN Response("assign_staff", 500, "MultipleResultsFound")
         ELSE IF found = "one"
         THEN Response("assign_staff", 409, ConflictMessage)
         ELSE Response("assign_staff", 200, "")

\* db.add(assignment); await db.commit()
InsertAssignment(r) ==
    assignments' = assignments \cup {AssignmentRow(NewId(Ids(assignments)), r)}

\* POST /staff-assignments/ run to completion.
AssignStaff(r) ==
    /\ LET out == AssignStaffResponse(r) IN
        /\ resp' = out
        /\ IF out.code = 200
           THEN /\ Cardinality(assignments) < MaxAssignments
                /\ InsertAssignment(r)
           ELSE UNCHANGED assignments
    /\ UNCHANGED <<people, contacts, auth, scheduling, inflight>>

UpdateStaffAssignmentResponse(id, r) ==
    IF id \notin Ids(assignments)
    THEN Response("update_staff_assignment", 404, "Assignment record not found")
    ELSE IF r.client_id \notin clients
    THEN Response("update_staff_assignment", 404, "Client not found")
    ELSE IF r.staff_user_id \notin DOMAIN users
    THEN Response("update_staff_assignment", 404, "Staff user not found")
    ELSE LET found == ScalarOneOrNone(UpdateOverlapRows(id, r)) IN
         IF found = "multiple"
         THEN Response("update_staff_assignment", 500, "MultipleResultsFound")
         ELSE IF found = "one"
         THEN Response("update_staff_assignment", 409, ConflictMessage)
         ELSE Response("update_staff_assignment", 200, "")

\* PUT /staff-assignments/{assignment_id}: every payload field is written.
UpdateStaffAssignment(id, r) ==
    /\ LET out == UpdateStaffAssignmentResponse(id, r) IN
        /\ resp' = out
        /\ assignments' =
             IF out.code = 200
             THEN {IF a.id = id THEN AssignmentRow(id, r) ELSE a : a \in assignments}
             ELSE assignments
    /\ UNCHANGED <<people, contacts, auth, scheduling, inflight>>

\* DELETE /staff-assignments/{assignment_id}
DeleteStaffAssignment(id) ==
    /\ IF id \in Ids(assignments)
       THEN /\ assignments' = {a \in assignments : a.id # id}
            /\ resp' = Response("delete_staff_assignment", 200,
                                "Staff assignment deleted successfully")
       ELSE /\ UNCHANGED assignments
            /\ resp' = Response("delete_staff_assignment", 404,
                                "Assignment record not found")
    /\ UNCHANGED <<people, contacts, auth, scheduling, inflight>>

\* ------------------------------------- assign_staff, one await at a time
\* Lines 16-45 of assign_staff: the reads. A request that is not turned away
\* is suspended before line 47 with its payload.
AssignCheck(p, r) ==
    /\ inflight[p] = Idle
    /\ LET out == AssignStaffResponse(r) IN
        IF out.code = 200
        THEN /\ inflight' = [inflight EXCEPT ![p] = [pc |-> "checked", req |-> r]]
             /\ UNCHANGED resp
        ELSE /\ resp' = out
             /\ UNCHANGED inflight
    /\ UNCHANGED <<people, contacts, auth, scheduling, assignments>>

\* A commit that runs the overlap query again inside the transaction and
\* answers 409 on a hit: the behaviour that C2 rules out.
AssignCommit_Recheck(p) ==
    /\ inflight[p].pc = "checked"
    /\ inflight' = [inflight EXCEPT ![p] = Idle]
    /\ IF AssignOverlapRows(inflight[p].req) = {}
       THEN /\ Cardinality(assignments) < MaxAssignments
            /\ InsertAssignment(inflight[p].req)
            /\ resp' = Response("assign_staff", 200, "")
       ELSE /\ UNCHANGED assignments
            /\ resp' = Response("assign_staff", 409, ConflictMessage)
    /\ UNCHANGED <<people, contacts, auth, scheduling>>

\* Lines 47-49 of assign_staff: the insert and the commit, with no second look
\* at the table.
AssignCommit(p) ==
    /\ inflight[p].pc = "checked"
    /\ Cardinality(assignments) < MaxAssignments
    /\ InsertAssignment(inflight[p].req)
    /\ inflight' = [inflight EXCEPT ![p] = Idle]
    /\ resp' = Response("assign_staff", 200, "")
    /\ UNCHANGED <<people, contacts, auth, scheduling>>

\* ----------------------------------------------------------- appointments
\* dict.get(field): None for a field the request does not set.
Get(upd, f) == IF f \in DOMAIN upd THEN upd[f] ELSE NoId

\* The setattr loop over the fields of update_data.
SetAttrs(row, upd) ==
    [f \in DOMAIN row |-> IF f \in DOMAIN upd THEN upd[f] ELSE row[f]]

\* validate_client_provider: the detail of the HTTPException(404) it raises,
\* or "ok".
ValidateClientProvider(client_id, provider_id) ==
    IF client_id # NoId /\ client_id \notin clients THEN "Client not found"
    ELSE IF provider_id # NoId /\ provider_id \notin DOMAIN users
    THEN "Provider not found"
    ELSE "ok"

AppointmentRow(id, r) ==
    [id |-> id, client_id |-> r.client_id, provider_id |-> r.provider_id,
     start_time |-> r.start_time, end_time |-> r.end_time, status |-> r.status]

\* A create_appointment that lets start_time = end_time through: the reading
\* that C12 rules out.
CreateAppointmentResponse_EqualAllowed(r) ==
    IF r.start_time > r.end_time
    THEN Response("create_appointment", 400, "start_time must be before end_time")
    ELSE LET v == ValidateClientProvider(r.client_id, r.provider_id) IN
         IF v = "Client not found"
         THEN Response("create_appointment", 500,
                       "Unexpected error occurred 404: Client not found.")
         ELSE IF v = "Provider not found"
         THEN Response("create_appointment", 500,
                       "Unexpected error occurred 404: Provider not found.")
         ELSE Response("create_appointment", 200, "")

\* create_appointment: the whole body sits in try/except Exception, which
\* turns the HTTPException of validate_client_provider into a 500.
CreateAppointmentResponse(r) ==
    IF r.start_time >= r.end_time
    THEN Response("create_appointment", 400, "start_time must be before end_time")
    ELSE LET v == ValidateClientProvider(r.client_id, r.provider_id) IN
         IF v = "Client not found"
         THEN Response("create_appointment", 500,
                       "Unexpected error occurred 404: Client not found.")
         ELSE IF v = "Provider not found"
         THEN Response("create_appointment", 500,
                       "Unexpected error occurred 404: Provider not found.")
         ELSE Response("create_appointment", 200, "")

\* POST /appointments/
CreateAppointment(r) ==
    /\ LET out == CreateAppointmentResponse(r)
           id == NewId(Ids(appointments))
       IN
        /\ resp' = out
        /\ IF out.code = 200
           THEN /\ Cardinality(appointments) < MaxAppointments
                /\ appointments' = appointments \cup {AppointmentRow(id, r)}
                /\ everCompleted' =
                     IF r.status = "completed"
                     THEN everCompleted \cup {id}
                     ELSE everCompleted \ {id}
           ELSE UNCHANGED <<appointments, everCompleted>>
    /\ UNCHANGED <<people, contacts, auth, assignments, notes, inflight, sessions>>

\* An update that refuses to move an appointment out of "completed": the
\* terminal-for-transition reading that C10 rules out.
UpdateAppointmentResponse_Terminal(id, upd) ==
    IF id \notin Ids(appointments)
    THEN Response("update_appointment", 404, "Appointment not found")
    ELSE IF \E a \in appointments :
                a.id = id /\ a.status = "completed" /\ "status" \in DOMAIN upd
    THEN Response("update_appointment", 400, "Completed appointments cannot change")
    ELSE IF DOMAIN upd = {}
    THEN Response("update_appointment", 400, "No fields provided for update")
    ELSE IF "start_time" \notin DOMAIN upd \/ "end_time" \notin DOMAIN upd
    THEN Response("update_appointment", 500, "TypeError")
    ELSE IF upd.start_time >= upd.end_time
    THEN Response("update_appointment", 400, "start_time must be before end_time")
    ELSE LET v == ValidateClientProvider(Get(upd, "client_id"),
                                         Get(upd, "provider_id")) IN
         IF v # "ok"
         THEN Response("update_appointment", 404, v)
         ELSE Response("update_appointment", 200, "")

\* An update_appointment without the comparison of line 151: the behaviour
\* that C11 rules out.
UpdateAppointmentResponse_NoWindowCheck(id, upd) ==
    IF id \notin Ids(appointments)
    THEN Response("update_appointment", 404, "Appointment not found")
    ELSE IF DOMAIN upd = {}
    THEN Response("update_appointment", 400, "No fields provided for update")
    ELSE LET v == ValidateClientProvider(Get(upd, "client_id"),
                                         Get(upd, "provider_id")) IN
         IF v # "ok"
         THEN Response("update_appointment", 404, v)
         ELSE Response("update_appointment", 200, "")

\* update_appointment up to the setattr loop. The comparison of line 151 reads
\* the payload, not update_data: a payload without both times compares None
\* and raises TypeError, which nothing catches.
UpdateAppointmentResponse(id, upd) ==
    IF id \notin Ids(appointments)
    THEN Response("update_appointment", 404, "Appointment not found")
    ELSE IF DOMAIN upd = {}
    THEN Response("update_appointment", 400, "No fields provided for update")
    ELSE IF "start_time" \notin DOMAIN upd \/ "end_time" \notin DOMAIN upd
    THEN Response("update_appointment", 500, "TypeError")
    ELSE IF upd.start_time >= upd.end_time
    THEN Response("update_appointment", 400, "start_time must be before end_time")
    ELSE LET v == ValidateClientProvider(Get(upd, "client_id"),
                                         Get(upd, "provider_id")) IN
         IF v # "ok"
         THEN Response("update_appointment", 404, v)
         ELSE Response("update_appointment", 200, "")

\* PUT /appointments/{appointment_id}
UpdateAppointment(id, upd) ==
    /\ LET out == UpdateAppointmentResponse(id, upd) IN
        /\ resp' = out
        /\ IF out.code = 200
           THEN /\ appointments' =
                     {IF a.id = id THEN SetAttrs(a, upd) ELSE a : a \in appointments}
                /\ everCompleted' =
                     IF "status" \in DOMAIN upd /\ upd.status = "completed"
                     THEN everCompleted \cup {id}
                     ELSE everCompleted
           ELSE UNCHANGED <<appointments, everCompleted>>
    /\ UNCHANGED <<people, contacts, auth, assignments, notes, inflight, sessions>>

\* A delete without the status test: the behaviour that C9 rules out.
DeleteAppointmentResponse_NoGuard(id) ==
    IF id \notin Ids(appointments)
    THEN Response("delete_appointment", 400, "Appointment not found")
    ELSE Response("delete_appointment", 200, "Appointment deleted successfully")

DeleteAppointmentResponse(id) ==
    IF id \notin Ids(appointments)
    THEN Response("delete_appointment", 400, "Appointment not found")
    ELSE IF \E a \in appointments : a.id = id /\ a.status = "completed"
    THEN Response("delete_appointment", 400,
                  "Completed appointments cannot be deleted")
    ELSE Response("delete_appointment", 200, "Appointment deleted successfully")

\* DELETE /appointments/{appointment_id}: the row goes, the notes that name it
\* stay.
DeleteAppointment(id) ==
    /\ LET out == DeleteAppointmentResponse(id) IN
        /\ resp' = out
        /\ appointments' =
             IF out.code = 200
             THEN {a \in appointments : a.id # id}
             ELSE appointments
    /\ UNCHANGED <<people, contacts, auth, assignments, notes, inflight, everCompleted, sessions>>

\* ---------------------------------------------------------- progress notes
NoteRow(id, r) ==
    [id |-> id, client_id |-> r.client_id, provider_id |-> r.provider_id,
     appointment_id |-> r.appointment_id]

\* A create_note that compares the client only: the behaviour that C8 rules
\* out.
CreateNoteResponse_ClientOnly(r) ==
    IF r.client_id \notin clients
    THEN Response("create_note", 404, "Client not found")
    ELSE IF r.provider_id \notin DOMAIN users
    THEN Response("create_note", 404, "Provider not found")
    ELSE IF r.appointment_id = NoId
    THEN Response("create_note", 200, "")
    ELSE IF r.appointment_id \notin Ids(appointments)
    THEN Response("create_note", 404, "Appointment not found")
    ELSE IF \E a \in appointments :
                a.id = r.appointment_id /\ a.client_id # r.client_id
    THEN Response("create_note", 400, "Appointment does not belong to this client")
    ELSE Response("create_note", 200, "")

\* create_note up to the insert. `if note_in.appointment_id:` skips the link
\* checks for None (and for 0).
CreateNoteResponse(r) ==
    IF r.client_id \notin clients
    THEN Response("create_note", 404, "Client not found")
    ELSE IF r.provider_id \notin DOMAIN users
    THEN Response("create_note", 404, "Provider not found")
    ELSE IF r.appointment_id = NoId
    THEN Response("create_note", 200, "")
    ELSE IF r.appointment_id \notin Ids(appointments)
    THEN Response("create_note", 404, "Appointment not found")
    ELSE IF \E a \in appointments :
                a.id = r.appointment_id /\ a.client_id # r.client_id
    THEN Response("create_note", 400, "Appointment does not belong to this client")
    ELSE IF \E a \in appointments :
                a.id = r.appointment_id /\ a.provider_id # r.provider_id
    THEN Response("create_note", 400, "Appointment does not belong to this provider")
    ELSE Response("create_note", 200, "")

\* POST /notes/
CreateNote(r) ==
    /\ LET out == CreateNoteResponse(r) IN
        /\ resp' = out
        /\ IF out.code = 200
           THEN /\ Cardinality(notes) < MaxNotes
                /\ notes' = notes \cup {NoteRow(NewId(Ids(notes)), r)}
           ELSE UNCHANGED notes
    /\ UNCHANGED <<people, contacts, auth, assignments, appointments, inflight, everCompleted,
                   sessions>>

\* PUT /notes/{note_id}: the fields of update_data are written as they come.
UpdateNote(id, upd) ==
    /\ IF id \in Ids(notes)
       THEN /\ notes' = {IF n.id = id THEN SetAttrs(n, upd) ELSE n : n \in notes}
            /\ resp' = Response("update_note", 200, "")
       ELSE /\ UNCHANGED notes
            /\ resp' = Response("update_note", 404, "Progress note not found")
    /\ UNCHANGED <<people, contacts, auth, assignments, appointments, inflight, everCompleted,
                   sessions>>

\* DELETE /notes/{note_id}
DeleteNote(id) ==
    /\ IF id \in Ids(notes)
       THEN /\ notes' = {n \in notes : n.id # id}
            /\ resp' = Response("delete_note", 200,
                                "Progress note deleted successfully")
       ELSE /\ UNCHANGED notes
            /\ resp' = Response("delete_note", 404, "Progress note not found")
    /\ UNCHANGED <<people, contacts, auth, assignments, appointments, inflight, everCompleted,
                   sessions>>

\* ------------------------------------------------- deletion of referents
\* The flush of db.delete(parent) sets the foreign key of every row of a
\* relationship() of the parent to NULL (no cascade is declared). Client has
\* relationships to appointments, progress notes and staff assignments, whose
\* client_id is NOT NULL.
ClientChildren(id) ==
    \/ \E a \in appointments : a.client_id = id
    \/ \E n \in notes : n.client_id = id
    \/ \E a \in assignments : a.client_id = id

\* User has a relationship to appointments only (provider_id NOT NULL).
UserChildren(id) ==
    \E a \in appointments : a.provider_id = id

\* A delete_client whose flush leaves the rows of the client's relationships
\* alone: the behaviour that C14 rules out.
DeleteClientResponse_ChildrenKept(id) ==
    IF id \notin clients
    THEN Response("delete_client", 404, "Client not found")
    ELSE Response("delete_client", 200, "Client deleted successfully")

\* delete_client: the IntegrityError of the commit is caught by the handler.
DeleteClientResponse(id) ==
    IF id \notin clients
    THEN Response("delete_client", 404, "Client not found")
    ELSE IF ClientChildren(id)
    THEN Response("delete_client", 500, "Unexpected error: IntegrityError")
    ELSE Response("delete_client", 200, "Client deleted successfully")

\* DELETE /clients/{client_id}
DeleteClient(id) ==
    /\ LET out == DeleteClientResponse(id) IN
        /\ resp' = out
        /\ clients' = IF out.code = 200 THEN clients \ {id} ELSE clients
        /\ contacts' = IF out.code = 200
                       THEN [c \in clients \ {id} |-> contacts[c]]
                       ELSE contacts
    /\ UNCHANGED <<users, auth, assignments, scheduling, inflight>>

\* hard_delete_user: the IntegrityError of the commit is not caught.
HardDeleteUserResponse(id) ==
    IF id \notin DOMAIN users
    THEN Response("hard_delete_user", 404, "User not found")
    ELSE IF UserChildren(id)
    THEN Response("hard_delete_user", 500, "IntegrityError")
    ELSE Response("hard_delete_user", 200, "User Deleted successfully")

\* DELETE /users/{user_id}/hard-delete
HardDeleteUser(id) ==
    /\ LET out == HardDeleteUserResponse(id) IN
        /\ resp' = out
        /\ users' = IF out.code = 200
                    THEN [u \in DOMAIN users \ {id} |-> users[u]]
                    ELSE users
        /\ accounts' = IF out.code = 200
                       THEN [u \in DOMAIN users \ {id} |-> accounts[u]]
                       ELSE accounts
    /\ UNCHANGED <<clients, contacts, now, issued, retired, assignments,
                   scheduling, inflight>>

\* ---------------------------------------------------------------- clients
\* The mapped attributes of models.Client and the fields of ClientCreate.
ClientAttributes ==
    {"id", "first_name", "last_name", "date_of_birth", "email", "phone",
     "address", "emergency_contact_name", "emergency_contact_phone",
     "created_at", "appointments", "notes", "treatment_plans", "invoices",
     "insurance_info", "family_contacts", "staff_assignments", "documents",
     "reminders", "assessments"}

ClientCreateFields ==
    {"first_name", "last_name", "date_of_birth", "email", "phone", "address",
     "emergency_contact_name", "emergency_contact_phone", "gender", "is_active"}

\* models.Client(**client_in.model_dump()): the declarative constructor
\* raises TypeError for a keyword that is not an attribute of the class.
ClientConstructorAccepts == ClientCreateFields \subseteq ClientAttributes

\* dict.get on a text field: None for a field the request does not set.
GetText(upd, f) == IF f \in DOMAIN upd THEN upd[f] ELSE NoText

\* The duplicate query of create_client and update_client: the clients other
\* than `id` that have the email or the phone, each compared only when the
\* request carries a non-empty value.
DuplicateRows(id, email, phone) ==
    {c \in clients \ {id} :
        \/ email # NoText /\ contacts[c].email = email
        \/ phone # NoText /\ contacts[c].phone = phone}

\* create_client: the duplicate query, then the constructor, then the commit.
\* No column of table clients is unique, so the commit does not fail.
CreateClientResponse(r) ==
    IF (r.email # NoText \/ r.phone # NoText)
            /\ DuplicateRows(NoId, r.email, r.phone) # {}
    THEN Response("create_client", 400,
                  "Client with this email or phone already exists.")
    ELSE IF ~ClientConstructorAccepts
    THEN Response("create_client", 500, "TypeError")
    ELSE Response("create_client", 200, "")

\* POST /clients/
CreateClient(r) ==
    /\ LET out == CreateClientResponse(r)
           id == NewId(clients)
       IN /\ resp' = out
          /\ IF out.code = 200
             THEN /\ Cardinality(clients) < MaxClients
                  /\ clients' = clients \cup {id}
                  /\ contacts' = contacts @@ (id :> r)
             ELSE UNCHANGED <<clients, contacts>>
    /\ UNCHANGED <<users, auth, assignments, scheduling, inflight>>

\* An update_client whose duplicate query looks at the email only: the
\* behaviour that C29 rules out.
UpdateClientResponse_EmailOnly(id, upd) ==
    IF id \notin clients
    THEN Response("update_client", 404, "Client not found")
    ELSE IF GetText(upd, "email") # NoText
            /\ DuplicateRows(id, GetText(upd, "email"), NoText) # {}
    THEN Response("update_client", 400,
                  "Client with this email or phone already exists.")
    ELSE Response("update_client", 200, "")

\* update_client up to the setattr loop.
UpdateClientResponse(id, upd) ==
    IF id \notin clients
    THEN Response("update_client", 404, "Client not found")
    ELSE IF (GetText(upd, "email") # NoText \/ GetText(upd, "phone") # NoText)
            /\ DuplicateRows(id, GetText(upd, "email"), GetText(upd, "phone")) # {}
    THEN Response("update_client", 400,
                  "Client with this email or phone already exists.")
    ELSE Response("update_client", 200, "")

\* PATCH /clients/{client_id}
UpdateClient(id, upd) ==
    /\ LET out == UpdateClientResponse(id, upd) IN
        /\ resp' = out
        /\ contacts' = IF out.code = 200
                       THEN [contacts EXCEPT ![id] = SetAttrs(contacts[id], upd)]
                       ELSE contacts
    /\ UNCHANGED <<people, auth, assignments, scheduling, inflight>>

\* -------------------------------------------------------- user accounts
\* What the handlers of routers/users.py below leave alone.
records == <<clients, contacts, assignments, scheduling, inflight>>

\* secrets.token_urlsafe(32): a value that no earlier call has returned.
GenerateResetToken == issued + 1

\* select(User).where(User.reset_token == data.token)
UsersWithToken(tok) ==
    {u \in DOMAIN accounts : accounts[u].reset_token = tok}

\* POST /forgot-password for the email of user u (or of nobody). The token is
\* committed before the mail is sent; `sent` is the outcome of the mail sink.
RequestReset(u, sent) ==
    /\ IF u \notin DOMAIN accounts
       THEN /\ resp' = Response("request_reset", 404, "Email not found")
            /\ UNCHANGED <<accounts, issued, retired>>
       ELSE /\ issued < MaxTokens
            /\ accounts' = [accounts EXCEPT
                    ![u].reset_token = GenerateResetToken,
                    ![u].reset_token_expires = now + ResetTtl]
            /\ issued' = issued + 1
            /\ retired' = retired \cup ({accounts[u].reset_token} \ {NoToken})
            /\ resp' = IF sent
                       THEN Response("request_reset", 200,
                                     "Password reset link sent to email")
                       ELSE Response("request_reset", 500,
                                     "Failed to send reset email. Please try again later.")
    /\ UNCHANGED <<users, now, records>>

\* reset_password up to the writes: the lookup by token, then the expiry.
ResetPasswordResponse(tok) ==
    LET found == ScalarOneOrNone(UsersWithToken(tok)) IN
    IF found = "multiple"
    THEN Response("reset_password", 500, "Failed to reset password.")
    ELSE IF found = "none"
    THEN Response("reset_password", 400, "Invalid token or token Expire")
    ELSE LET u == CHOOSE v \in UsersWithToken(tok) : TRUE IN
         IF \/ accounts[u].reset_token_expires = NoExpiry
            \/ accounts[u].reset_token_expires < now
         THEN Response("reset_password", 400, "Token expired")
         ELSE Response("reset_password", 200, "Password updated successfully")

\* A reset_password that leaves reset_token in place: the reuse that C27
\* rules out.
ResetPassword_TokenKept(tok) ==
    /\ resp' = ResetPasswordResponse(tok)
    /\ retired' = IF resp'.code = 200 THEN retired \cup {tok} ELSE retired
    /\ UNCHANGED <<accounts, users, now, issued, records>>

\* POST /reset-password: a successful reset clears the token and its expiry.
ResetPassword(tok) ==
    /\ LET out == ResetPasswordResponse(tok) IN
        /\ resp' = out
        /\ IF out.code = 200
           THEN /\ accounts' =
                    [u \in DOMAIN accounts |->
                        IF u \in UsersWithToken(tok)
                        THEN [accounts[u] EXCEPT !.reset_token = NoToken,
                                                 !.reset_token_expires = NoExpiry]
                        ELSE accounts[u]]
                /\ retired' = retired \cup {tok}
           ELSE UNCHANGED <<accounts, retired>>
    /\ UNCHANGED <<users, now, issued, records>>

\* DELETE /users/{user_id}/soft-delete
SoftDeleteUser(id) ==
    /\ IF id \notin DOMAIN accounts
       THEN /\ resp' = Response("soft_delete_user", 404, "User not found")
            /\ UNCHANGED accounts
       ELSE /\ accounts' = [accounts EXCEPT ![id].is_active = FALSE]
            /\ resp' = Response("soft_delete_user", 200,
                                "User deactivated successfully")
    /\ UNCHANGED <<users, now, issued, retired, records>>

\* PUT /users/{user_id}: the setattr loop over the fields the payload sets.
UpdateUser(id, upd) ==
    /\ IF id \notin DOMAIN accounts
       THEN /\ resp' = Response("update_user", 404, "User not found")
            /\ UNCHANGED <<accounts, users>>
       ELSE /\ accounts' =
                  IF "is_active" \in DOMAIN upd
                  THEN [accounts EXCEPT ![id].is_active = upd.is_active]
                  ELSE accounts
            /\ users' =
                  IF "role" \in DOMAIN upd
                  THEN [users EXCEPT ![id] = upd.role]
                  ELSE users
            /\ resp' = Response("update_user", 200, "User updated successfully")
    /\ UNCHANGED <<now, issued, retired, records>>

\* A refresh that looks the user up by id alone: the behaviour that C28
\* rules out.
RefreshAccessTokenResponse_AnyUser(t) ==
    IF ~t.valid
    THEN Response("refresh_access_token", 401, "Invalid or expired refresh token")
    ELSE IF t.sub = NoId
    THEN Response("refresh_access_token", 401, "Invalid token payload")
    ELSE IF t.sub \notin DOMAIN accounts
    THEN Response("refresh_access_token", 401, "User not found or inactive")
    ELSE Response("refresh_access_token", 200, "")

\* refresh_access_token: decode, read "sub", select the active user.
RefreshAccessTokenResponse(t) ==
    IF ~t.valid
    THEN Response("refresh_access_token", 401, "Invalid or expired refresh token")
    ELSE IF t.sub = NoId
    THEN Response("refresh_access_token", 401, "Invalid token payload")
    ELSE IF t.sub \notin DOMAIN accounts \/ ~accounts[t.sub].is_active
    THEN Response("refresh_access_token", 401, "User not found or inactive")
    ELSE Response("refresh_access_token", 200, "")

\* POST /refresh: the new tokens are returned, nothing is stored.
RefreshAccessToken(t) ==
    /\ resp' = RefreshAccessTokenResponse(t)
    /\ UNCHANGED <<users, auth, records>>

\* Time passes.
Tick ==
    /\ now < MaxClock
    /\ now' = now + 1
    /\ UNCHANGED <<users, accounts, issued, retired, records, resp>>

\* ------------------------------------------------------------ telehealth
\* str(n) of a non-negative int, as the sequence of its decimal digits.
RECURSIVE IntStr(_)
IntStr(n) ==
    LET digit(d) == <<"0", "1", "2", "3", "4", "5", "6", "7", "8", "9">>[d + 1] IN
    IF n < 10 THEN <<digit(n)>> ELSE IntStr(n \div 10) \o <<digit(n % 10)>>

\* f"https://video.wellspring-ehr.local/session/{session_in.appointment_id}"
JoinUrl(appointment_id) ==
    <<"https://video.wellspring-ehr.local/session/">> \o IntStr(appointment_id)

\* A session whose join_url is built from the client: the dependence on
\* another field that C22 rules out.
SessionRow_UrlOfClient(id, r) ==
    [id |-> id, appointment_id |-> r.appointment_id,
     provider_id |-> r.provider_id, client_id |-> r.client_id,
     join_url |-> JoinUrl(r.client_id)]

SessionRow(id, r) ==
    [id |-> id, appointment_id |-> r.appointment_id,
     provider_id |-> r.provider_id, client_id |-> r.client_id,
     join_url |-> JoinUrl(r.appointment_id)]

\* create_telehealth_session: three existence checks, in this order.
CreateTelehealthSessionResponse(r) ==
    IF r.appointment_id \notin Ids(appointments)
    THEN Response("create_telehealth_session", 400, "Invalid appointment_id")
    ELSE IF r.provider_id \notin DOMAIN users
    THEN Response("create_telehealth_session", 400, "Invalid provider_id")
    ELSE IF r.client_id \notin clients
    THEN Response("create_telehealth_session", 400, "Invalid client_id")
    ELSE Response("create_telehealth_session", 200, "")

\* POST /telehealth/sessions
CreateTelehealthSession(r) ==
    /\ LET out == CreateTelehealthSessionResponse(r) IN
        /\ resp' = out
        /\ IF out.code = 200
           THEN /\ Cardinality(sessions) < MaxSessions
                /\ sessions' = sessions \cup {SessionRow(NewId(Ids(sessions)), r)}
           ELSE UNCHANGED sessions
    /\ UNCHANGED <<people, contacts, auth, assignments, appointments, notes, everCompleted,
                   inflight>>

\* --------------------------------------------------------- specifications
Init ==
    /\ clients = InitClients
    /\ users = InitUsers
    /\ assignments = {}
    /\ appointments = {}
    /\ notes = {}
    /\ everCompleted = {}
    /\ sessions = {}
    /\ contacts = InitContacts
    /\ accounts = InitAccounts
    /\ now = 1
    /\ issued = 0
    /\ retired = {}
    /\ inflight = [p \in 1..MaxRequests |-> Idle]
    /\ resp = NoResponse

\* Requests served one at a time.
Next ==
    \/ \E r \in AssignInputs : AssignStaff(r)
    \/ \E id \in 1..MaxAssignments, r \in AssignInputs : UpdateStaffAssignment(id, r)
    \/ \E id \in 1..MaxAssignments : DeleteStaffAssignment(id)

Spec == Init /\ [][Next]_vars

\* assign_staff requests interleaved at their awaits.
NextConc ==
    \/ \E p \in 1..MaxRequests, r \in ConcInputs : AssignCheck(p, r)
    \/ \E p \in 1..MaxRequests : AssignCommit(p)
    \/ \E id \in 1..MaxAssignments : DeleteStaffAssignment(id)

SpecConc == Init /\ [][NextConc]_vars

\* Staff assignment requests over two clients and two staff users.
NextPairs ==
    \/ \E r \in PairInputs : AssignStaff(r)
    \/ \E id \in 1..MaxAssignments, r \in PairInputs : UpdateStaffAssignment(id, r)
    \/ \E id \in 1..MaxAssignments : DeleteStaffAssignment(id)

SpecPairs == Init /\ [][NextPairs]_vars

\* Staff assignment requests of one pair with absent dates.
NextAbsent ==
    \/ \E r \in AbsentInputs : AssignStaff(r)
    \/ \E id \in 1..MaxAssignments, r \in AbsentInputs : UpdateStaffAssignment(id, r)
    \/ \E id \in 1..MaxAssignments : DeleteStaffAssignment(id)

SpecAbsent == Init /\ [][NextAbsent]_vars

\* Appointment requests served one at a time.
NextAppt ==
    \/ \E r \in ApptCreateInputs : CreateAppointment(r)
    \/ \E id \in 1..MaxAppointments, upd \in ApptUpdateInputs :
            UpdateAppointment(id, upd)
    \/ \E id \in 1..MaxAppointments : DeleteAppointment(id)

SpecAppt == Init /\ [][NextAppt]_vars

\* Appointment and note requests served one at a time.
NextNotes ==
    \/ \E r \in LinkCreateInputs : CreateAppointment(r)
    \/ \E id \in 1..MaxAppointments, upd \in LinkUpdateInputs :
            UpdateAppointment(id, upd)
    \/ \E id \in 1..MaxAppointments : DeleteAppointment(id)
    \/ \E r \in NoteCreateInputs : CreateNote(r)
    \/ \E id \in 1..MaxNotes, upd \in NoteUpdateInputs : UpdateNote(id, upd)
    \/ \E id \in 1..MaxNotes : DeleteNote(id)

SpecNotes == Init /\ [][NextNotes]_vars

\* Appointment requests and deletions of clients and users, one at a time.
NextRefs ==
    \/ \E r \in LinkCreateInputs : CreateAppointment(r)
    \/ \E id \in 1..MaxAppointments, upd \in LinkUpdateInputs :
            UpdateAppointment(id, upd)
    \/ \E id \in 1..MaxAppointments : DeleteAppointment(id)
    \/ \E id \in 1..3 : DeleteClient(id)
    \/ \E id \in 1..3 : HardDeleteUser(id)

SpecRefs == Init /\ [][NextRefs]_vars

\* Appointment and telehealth session requests served one at a time.
NextTele ==
    \/ \E r \in LinkCreateInputs : CreateAppointment(r)
    \/ \E id \in 1..MaxAppointments, upd \in LinkUpdateInputs :
            UpdateAppointment(id, upd)
    \/ \E id \in 1..MaxAppointments : DeleteAppointment(id)
    \/ \E r \in SessionInputs : CreateTelehealthSession(r)

SpecTele == Init /\ [][NextTele]_vars

\* Client requests served one at a time.
NextClients ==
    \/ \E r \in ClientCreateInputs : CreateClient(r)
    \/ \E id \in 1..3, upd \in ClientUpdateInputs : UpdateClient(id, upd)

SpecClients == Init /\ [][NextClients]_vars

\* Account requests served one at a time, and the clock.
NextAuth ==
    \/ \E u \in 1..3, sent \in BOOLEAN : RequestReset(u, sent)
    \/ \E tok \in Tokens : ResetPassword(tok)
    \/ \E id \in 1..3 : SoftDeleteUser(id)
    \/ \E id \in 1..3, upd \in UserUpdateInputs : UpdateUser(id, upd)
    \/ \E t \in RefreshInputs : RefreshAccessToken(t)
    \/ Tick

SpecAuth == Init /\ [][NextAuth]_vars

\* ------------------------------------------------------------- properties
HasInterval(a) == a.start_date # NoDate /\ a.end_date # NoDate

\* The calendar days that the closed intervals of a and b share.
SharedDays(a, b) ==
    {d \in Days : /\ a.start_date <= d /\ d <= a.end_date
                  /\ b.start_date <= d /\ d <= b.end_date}

SamePair(a, b) ==
    a.client_id = b.client_id /\ a.staff_user_id = b.staff_user_id

\* The stored rows that share a client, a staff user and a day with the
\* interval of payload r.
DayConflicts(rows, r) ==
    {a \in rows : SamePair(a, r) /\ HasInterval(a) /\ SharedDays(a, r) # {}}

\* Every stored interval has its start on or before its end.
WellFormedRows == \A a \in assignments : a.start_date <= a.end_date

\* A payload that passes every check of assign_staff before the overlap query.
PassesReferents(r) ==
    /\ r.client_id \in clients
    /\ r.staff_user_id \in DOMAIN users
    /\ users[r.staff_user_id] = r.role

\* C1: with requests served one at a time, no two stored assignments of the
\* same (client_id, staff_user_id) have closed intervals [start_date, end_date]
\* that share a day.
C1_NoDoubleBooking ==
    \A a, b \in assignments :
        (a.id # b.id /\ SamePair(a, b) /\ HasInterval(a) /\ HasInterval(b))
            => SharedDays(a, b) = {}

\* Two assignments of one pair are stored and the last request, an update of
\* one of them, was accepted.
C1_Witness ==
    /\ resp.op = "update_staff_assignment" /\ resp.code = 200
    /\ \E a, b \in assignments :
        a.id # b.id /\ SamePair(a, b) /\ a.start_date <= a.end_date
            /\ b.start_date <= b.end_date

\* C2: an assign_staff request that ran its overlap query while no committed
\* row conflicted is let through whatever is in flight, and a request that was
\* let through commits its row whatever has been committed since; so two
\* overlapping assignments of one pair get stored.
C2_BothCommit ==
    [][/\ \A p \in 1..MaxRequests, r \in ConcInputs :
            (/\ WellFormedRows /\ r.start_date <= r.end_date
             /\ DayConflicts(assignments, r) = {}
             /\ AssignCheck(p, r))
                => inflight'[p] = [pc |-> "checked", req |-> r]
       /\ \A p \in 1..MaxRequests :
            (inflight[p].pc = "checked" /\ inflight'[p] = Idle)
                => \E a \in assignments' \ assignments :
                        a = AssignmentRow(a.id, inflight[p].req)]_vars

\* Two stored assignments of one pair share a day.
C2_Witness ==
    \E a, b \in assignments :
        a.id # b.id /\ SamePair(a, b) /\ SharedDays(a, b) # {}

\* C3: assign_staff for a pair that has a stored assignment whose interval
\* shares a day with the requested one answers 409 and stores nothing (stated
\* for tables whose intervals all have start_date <= end_date).
C3_ConflictOnOverlap ==
    [][resp'.op = "assign_staff" =>
        \A r \in AssignInputs :
            (/\ WellFormedRows /\ PassesReferents(r)
             /\ DayConflicts(assignments, r) # {}
             /\ AssignStaff(r))
                => (resp'.code = 409 /\ assignments' = assignments)]_vars

\* C4: update_staff_assignment leaves the updated row out of the overlap scan:
\* a range that shares days with no other row of the pair is stored, a range
\* that shares a day with another row of the pair answers 409 and changes
\* nothing (stated for tables whose intervals all have start_date <= end_date).
C4_SelfExclusion ==
    [][resp'.op = "update_staff_assignment" =>
        \A id \in Ids(assignments), r \in AssignInputs :
            (/\ WellFormedRows
             /\ r.client_id \in clients
             /\ r.staff_user_id \in DOMAIN users
             /\ r.start_date <= r.end_date
             /\ UpdateStaffAssignment(id, r))
                => LET others == {a \in assignments : a.id # id} IN
                   IF DayConflicts(others, r) = {}
                   THEN /\ resp'.code = 200
                        /\ AssignmentRow(id, r) \in assignments'
                   ELSE /\ resp'.code = 409
                        /\ assignments' = assignments]_vars

\* The inclusive-bound predicate on [a1, a2] and [b1, b2].
InclusiveOverlap(a1, a2, b1, b2) == a1 <= b2 /\ b1 <= a2

\* C5: assign_staff refuses a payload with stored referents exactly when some
\* stored interval of the pair satisfies a1 <= b2 and b1 <= a2 with the
\* requested one, and with 409 when exactly one does; a shared boundary day is
\* a conflict, adjacent days are not.
C5_InclusiveBounds ==
    [][resp'.op = "assign_staff" =>
        \A r \in AssignInputs :
            (PassesReferents(r) /\ AssignStaff(r))
                => LET hits == {a \in assignments :
                                    /\ SamePair(a, r)
                                    /\ InclusiveOverlap(a.start_date, a.end_date,
                                                        r.start_date, r.end_date)}
                   IN /\ (assignments' = assignments /\ resp'.code # 200) <=> hits # {}
                      /\ Cardinality(hits) = 1 => resp'.code = 409]_vars

\* A request was refused with 409 by a table whose only row is a single-day
\* interval.
C5_Witness ==
    /\ resp.op = "assign_staff" /\ resp.code = 409
    /\ Cardinality(assignments) = 1
    /\ \A a \in assignments : a.start_date = a.end_date

\* C6: the overlap check is symmetric, and every interval that a handler
\* stored overlaps itself.
C6_SymmetricReflexive ==
    \A a, b \in assignments :
        /\ Overlaps(a.start_date, a.end_date, b.start_date, b.end_date)
             = Overlaps(b.start_date, b.end_date, a.start_date, a.end_date)
        /\ Overlaps(a.start_date, a.end_date, a.start_date, a.end_date)

\* The stored appointment that note n is linked to, if any.
LinkedAppointments(n) == {a \in appointments : a.id = n.appointment_id}

\* C7: every stored note that is linked to a stored appointment has the
\* client_id and the provider_id of that appointment.
C7_LinkedNoteConsistent ==
    \A n \in notes : \A a \in LinkedAppointments(n) :
        a.client_id = n.client_id /\ a.provider_id = n.provider_id

\* C8: create_note for a stored client and provider, with the id of a stored
\* appointment of another client or another provider, answers 400 and stores
\* no note.
C8_InconsistentLinkRejected ==
    [][resp'.op = "create_note" =>
        \A r \in NoteCreateInputs :
            (/\ r.client_id \in clients
             /\ r.provider_id \in DOMAIN users
             /\ \E a \in appointments :
                    /\ a.id = r.appointment_id
                    /\ (a.client_id # r.client_id \/ a.provider_id # r.provider_id)
             /\ CreateNote(r))
                => (resp'.code = 400 /\ notes' = notes)]_vars

\* create_note was refused for an appointment of another provider.
C8_Witness ==
    /\ resp.op = "create_note" /\ resp.code = 400
    /\ resp.message = "Appointment does not belong to this provider"
    /\ appointments # {}

\* C9: delete_appointment of a stored appointment answers 400 and removes
\* nothing when its status is "completed", and removes that appointment and no
\* other when its status is "scheduled".
C9_DeleteByStatus ==
    [][resp'.op = "delete_appointment" =>
        \A a \in appointments :
            DeleteAppointment(a.id)
                => /\ a.status = "completed"
                        => (resp'.code = 400 /\ appointments' = appointments)
                   /\ a.status = "scheduled"
                        => (resp'.code = 200 /\ appointments' = appointments \ {a})]_vars

\* The delete of a completed appointment was refused and the appointment is
\* still stored.
C9_Witness ==
    /\ resp.op = "delete_appointment" /\ resp.code = 400
    /\ resp.message = "Completed appointments cannot be deleted"
    /\ \E a \in appointments : a.status = "completed"

C12_InvalidWindowRejected ==
    [][resp'.op = "create_appointment" =>
        \A r \in ApptCreateInputs :
            (r.start_time >= r.end_time /\ CreateAppointment(r))
                => /\ resp'.code = 400
                   /\ resp'.message = "start_time must be before end_time"
                   /\ appointments' = appointments]_vars

\* create_appointment was refused for its window.
C12_Witness ==
    /\ resp.op = "create_appointment" /\ resp.code = 400
    /\ resp.message = "start_time must be before end_time"

\* The referent that validate_client_provider misses first in a payload, or
\* "ok".
MissingReferent(client_id, provider_id) ==
    IF client_id # NoId /\ client_id \notin clients THEN "Client not found"
    ELSE IF provider_id # NoId /\ provider_id \notin DOMAIN users
    THEN "Provider not found"
    ELSE "ok"

\* C13: create_appointment and update_appointment with a valid window and a
\* client_id or provider_id that names no row answer 404 with the name of the
\* missing entity and change nothing.
C13_NotFoundNamed ==
    [][/\ resp'.op = "create_appointment" =>
            \A r \in ApptCreateInputs :
                (/\ r.start_time < r.end_time
                 /\ MissingReferent(r.client_id, r.provider_id) # "ok"
                 /\ CreateAppointment(r))
                    => /\ resp'.code = 404
                       /\ resp'.message = MissingReferent(r.client_id, r.provider_id)
                       /\ appointments' = appointments
       /\ resp'.op = "update_appointment" =>
            \A a \in appointments, upd \in ApptUpdateInputs :
                (/\ {"start_time", "end_time", "client_id", "provider_id"}
                        \subseteq DOMAIN upd
                 /\ upd.start_time < upd.end_time
                 /\ MissingReferent(upd.client_id, upd.provider_id) # "ok"
                 /\ UpdateAppointment(a.id, upd))
                    => /\ resp'.code = 404
                       /\ resp'.message = MissingReferent(upd.client_id, upd.provider_id)
                       /\ appointments' = appointments]_vars

\* C20: the status of every stored appointment is one of scheduled, completed,
\* canceled, no_show.
C20_StatusEnumerated ==
    \A a \in appointments : a.status \in Statuses

\* C15: assign_staff with a start_date before today is refused and stores no
\* assignment.
C15_PastStartRejected ==
    [][resp'.op = "assign_staff" =>
        \A r \in AssignInputs :
            (r.start_date < Today /\ PassesReferents(r) /\ AssignStaff(r))
                => resp'.code # 200 /\ assignments' = assignments]_vars

\* C16: every stored assignment has end_date >= start_date.
C16_EndNotBeforeStart ==
    \A a \in assignments : a.end_date >= a.start_date

\* C17: assign_staff with a stored client, a stored staff user and a declared
\* role that differs from the user's role answers "Invalid Staff user role."
\* and stores no assignment.
C17_RoleMismatchRejected ==
    [][resp'.op = "assign_staff" =>
        \A r \in AssignInputs :
            (/\ r.client_id \in clients
             /\ r.staff_user_id \in DOMAIN users
             /\ users[r.staff_user_id] # r.role
             /\ AssignStaff(r))
                => /\ resp'.code = 404
                   /\ resp'.message = "Invalid Staff user role."
                   /\ assignments' = assignments]_vars

\* assign_staff was refused for the declared role.
C17_Witness ==
    resp.op = "assign_staff" /\ resp.message = "Invalid Staff user role."

\* C18: a payload that assign_staff turns away for a missing client, a missing
\* staff user or a role mismatch is turned away by update_staff_assignment of
\* a stored record too, and the record is unchanged.
C18_UpdateValidatesAsAssign ==
    [][resp'.op = "update_staff_assignment" =>
        \A id \in 1..MaxAssignments, r \in AssignInputs :
            (/\ id \in Ids(assignments)
             /\ AssignStaffResponse(r).code = 404
             /\ UpdateStaffAssignment(id, r))
                => resp'.code # 200 /\ assignments' = assignments]_vars

\* C14: the client_id of every stored appointment is the id of a stored
\* client and its provider_id is the id of a stored user.
C14_ReferentsStored ==
    \A a \in appointments :
        a.client_id \in clients /\ a.provider_id \in DOMAIN users

\* A client or user has been deleted, and the deletion of one that an
\* appointment references was refused.
C14_Witness ==
    /\ resp.op \in {"delete_client", "hard_delete_user"} /\ resp.code = 500
    /\ appointments # {}
    /\ clients # InitClients \/ DOMAIN users # DOMAIN InitUsers

\* C19: every stored telehealth session has the client_id and the provider_id
\* of the appointment it references.
C19_SessionMatchesAppointment ==
    \A s \in sessions : \A a \in appointments :
        a.id = s.appointment_id
            => s.client_id = a.client_id /\ s.provider_id = a.provider_id

\* C21: an appointment that create_appointment stores has status "scheduled".
C21_CreatedScheduled ==
    [][(resp'.op = "create_appointment" /\ resp'.code = 200) =>
        \A r \in ApptCreateInputs :
            CreateAppointment(r) =>
                \A a \in appointments' \ appointments : a.status = "scheduled"]_vars

\* C22: two stored telehealth sessions have the same join_url exactly when
\* they have the same appointment_id, and the join_urls of two appointment ids
\* are equal only for equal ids.
C22_JoinUrlByAppointment ==
    /\ \A s, t \in sessions :
           (s.appointment_id = t.appointment_id) <=> (s.join_url = t.join_url)
    /\ \A m, n \in 0..MaxUrlId : (JoinUrl(m) = JoinUrl(n)) => m = n

\* Two sessions of one appointment that differ in client or provider are
\* stored.
C22_Witness ==
    \E s, t \in sessions :
        /\ s.appointment_id = t.appointment_id
        /\ s.client_id # t.client_id \/ s.provider_id # t.provider_id

\* C26: update_appointment of a stored appointment with a non-empty set of
\* fields (an ordered window where both times are set, stored referents where
\* they are set) is accepted, writes exactly those fields of that appointment
\* and leaves every other appointment as it was; with no field it is refused
\* and changes nothing.
C26_PartialUpdate ==
    [][resp'.op = "update_appointment" =>
        \A a \in appointments, upd \in ApptUpdateInputs :
            UpdateAppointment(a.id, upd) =>
                IF DOMAIN upd = {}
                THEN resp'.code # 200 /\ appointments' = appointments
                ELSE (/\ "start_time" \in DOMAIN upd /\ "end_time" \in DOMAIN upd
                            => upd.start_time < upd.end_time
                      /\ MissingReferent(Get(upd, "client_id"),
                                         Get(upd, "provider_id")) = "ok")
                        => /\ resp'.code = 200
                           /\ appointments' =
                                {IF b.id = a.id THEN SetAttrs(b, upd) ELSE b :
                                    b \in appointments}]_vars

\* C23: assign_staff reports a missing client first (also when the staff user
\* is missing too), then a missing staff user, then a role mismatch (also when
\* a stored assignment of the pair overlaps the request); every request that
\* is not accepted leaves the stored assignments unchanged.
C23_CheckOrder ==
    [][resp'.op = "assign_staff" =>
        \A r \in AssignInputs :
            AssignStaff(r) =>
                /\ r.client_id \notin clients
                        => resp'.message = "Client not found"
                /\ (r.client_id \in clients /\ r.staff_user_id \notin DOMAIN users)
                        => resp'.message = "Staff user not found"
                /\ (/\ r.client_id \in clients
                    /\ r.staff_user_id \in DOMAIN users
                    /\ users[r.staff_user_id] # r.role)
                        => resp'.message = "Invalid Staff user role."
                /\ resp'.code # 200 => assignments' = assignments]_vars

\* A role mismatch was reported while every stored client has an assignment
\* to the provider that covers day 1, the day of every request with another
\* role: the request overlapped a stored assignment of its pair.
C23_Witness ==
    /\ resp.op = "assign_staff" /\ resp.message = "Invalid Staff user role."
    /\ \A c \in clients :
            \E a \in assignments :
                /\ a.client_id = c /\ a.staff_user_id = 1
                /\ a.start_date = 1 /\ a.end_date >= 1

\* C24: assign_staff and update_staff_assignment refuse a payload with stored
\* referents only when a stored assignment of the same client and the same
\* staff user (other than the updated one) overlaps it: assignments of another
\* client or another staff user never do.
C24_ScanSamePairOnly ==
    [][/\ resp'.op = "assign_staff" =>
            \A r \in PairInputs :
                (resp'.code # 200 /\ PassesReferents(r) /\ AssignStaff(r))
                    => \E a \in assignments :
                          /\ SamePair(a, r)
                          /\ InclusiveOverlap(a.start_date, a.end_date,
                                              r.start_date, r.end_date)
       /\ resp'.op = "update_staff_assignment" =>
            \A id \in Ids(assignments), r \in PairInputs :
                (resp'.code # 200 /\ UpdateStaffAssignment(id, r))
                    => \E a \in assignments :
                          /\ a.id # id /\ SamePair(a, r)
                          /\ InclusiveOverlap(a.start_date, a.end_date,
                                              r.start_date, r.end_date)]_vars

\* A request was accepted into a table that holds two assignments of one staff
\* user to different clients and two of one client to different staff users,
\* each two sharing a day.
C24_Witness ==
    /\ resp.code = 200
    /\ resp.op \in {"assign_staff", "update_staff_assignment"}
    /\ \E a, b \in assignments :
        /\ a.client_id # b.client_id /\ a.staff_user_id = b.staff_user_id
        /\ SharedDays(a, b) # {}
    /\ \E a, b \in assignments :
        /\ a.client_id = b.client_id /\ a.staff_user_id # b.staff_user_id
        /\ SharedDays(a, b) # {}

C27_ResetTokenSingleUse ==
    [][/\ resp'.op = "reset_password" =>
            \A tok \in Tokens :
                (resp'.code = 200 /\ ResetPassword(tok))
                    => /\ tok \notin retired
                       /\ \E u \in DOMAIN accounts :
                            /\ accounts[u].reset_token = tok
                            /\ accounts[u].reset_token_expires >= now
                       /\ \A u \in DOMAIN accounts : accounts'[u].reset_token # tok
       /\ resp'.op = "request_reset" =>
            \A u \in DOMAIN accounts, sent \in BOOLEAN :
                (accounts[u].reset_token # NoToken /\ RequestReset(u, sent))
                    => /\ accounts[u].reset_token \in retired'
                       /\ \A v \in DOMAIN accounts :
                            accounts'[v].reset_token # accounts[u].reset_token]_vars

\* Every token that can be generated has been used or replaced, a user's
\* token is cleared, and the last reset_password was turned away because its
\* token is no user's reset_token.
C27_Witness ==
    /\ Cardinality(retired) = MaxTokens
    /\ resp.op = "reset_password" /\ resp.code = 400
    /\ resp.message = "Invalid token or token Expire"
    /\ \E u \in DOMAIN accounts : accounts[u].reset_token = NoToken

\* C28: soft_delete_user of a stored user sets is_active to false, and
\* refresh_access_token with a valid refresh token of a user whose is_active
\* is false answers 401.
C28_InactiveNoRefresh ==
    [][/\ resp'.op = "soft_delete_user" =>
            \A id \in DOMAIN accounts :
                SoftDeleteUser(id) => resp'.code = 200 /\ ~accounts'[id].is_active
       /\ resp'.op = "refresh_access_token" =>
            \A t \in RefreshInputs :
                (/\ t.valid /\ t.sub \in DOMAIN accounts
                 /\ ~accounts[t.sub].is_active
                 /\ RefreshAccessToken(t))
                    => resp'.code = 401]_vars

\* A refresh was refused for the user while every stored user is deactivated.
C28_Witness ==
    /\ resp.op = "refresh_access_token" /\ resp.code = 401
    /\ resp.message = "User not found or inactive"
    /\ \A u \in DOMAIN accounts : ~accounts[u].is_active

\* No two stored clients have the same non-empty email or the same non-empty
\* phone.
NoDuplicateContacts ==
    \A c, d \in clients :
        c # d => /\ contacts[c].email # NoText
                        => contacts[c].email # contacts[d].email
                 /\ contacts[c].phone # NoText
                        => contacts[c].phone # contacts[d].phone

\* A client other than `id` has the non-empty email or the non-empty phone.
WouldDuplicate(id, email, phone) ==
    \E c \in clients \ {id} :
        \/ email # NoText /\ contacts[c].email = email
        \/ phone # NoText /\ contacts[c].phone = phone

\* C29: no two stored clients share a non-empty email or a non-empty phone,
\* and a create_client or update_client that would make two clients share one
\* answers 400 and changes nothing.
C29_UniqueContacts ==
    /\ []NoDuplicateContacts
    /\ [][/\ resp'.op = "create_client" =>
                \A r \in ClientCreateInputs :
                    (WouldDuplicate(NoId, r.email, r.phone) /\ CreateClient(r))
                        => /\ resp'.code = 400
                           /\ clients' = clients /\ contacts' = contacts
          /\ resp'.op = "update_client" =>
                \A id \in clients, upd \in ClientUpdateInputs :
                    (/\ WouldDuplicate(id, GetText(upd, "email"),
                                       GetText(upd, "phone"))
                     /\ UpdateClient(id, upd))
                        => resp'.code = 400 /\ contacts' = contacts]_vars

\* A request was refused as a duplicate while every stored client has an
\* email and a phone.
C29_Witness ==
    /\ resp.op \in {"create_client", "update_client"} /\ resp.code = 400
    /\ \A c \in clients :
            contacts[c].email # NoText /\ contacts[c].phone # NoText

====
